---- MODULE Spec2Model ----
\* Model of the transport client (src/src/network/connections.py) and of the
\* file manager (src/src/file_management/file_handler.py) of the
\* Cliente-Socket-Python-GUI repository.
EXTENDS Integers, Sequences, FiniteSets, TLC

\* ------------------------------------------------------------------ bounds
\* Number of sockets one run may create (socket ids are 1..MaxSockets).
MaxSockets == 3

\* Number of runs of one character in a line, and of lines in a file, of
\* the files whose text is enumerated.
MaxRuns == 3
MaxLineas == 2

\* Number of data lines of the files separated by runs of spaces.
MaxDatos == 2

\* ------------------------------------------------------- values and inputs
\* self._socket = None
None == 0

\* Default of the timeout parameter of ClienteSocket.__init__.
TimeoutDefecto == 30

\* Timeout values a caller passes to the constructor / to the setter.
TimeoutValores == {-1, 0, 5, TimeoutDefecto}

\* Exceptions socket.socket.connect can end with ("ok": it returns).
ResConnect == {"ok", "socket.timeout", "socket.gaierror",
               "ConnectionRefusedError", "OSError"}

\* Exceptions socket.socket.sendall can end with ("ok": it returns).
ResSend == {"ok", "socket.timeout", "BrokenPipeError",
            "ConnectionResetError", "OSError"}

\* Payload strings, as sequences of Unicode code points:
\* "", "a", "ñ€", "a" + emoji, "a" + lone surrogate U+D83D.
Datos == {<< >>, <<97>>, <<241, 8364>>, <<97, 128512>>, <<97, 55357>>}

\* ------------------------------------------------------------ exceptions
NoError == [tipo |-> "None", msg |-> "", ctx |-> "None"]

\* An exception of a library or of the operating system, as raised.
Excepcion(tipo) == [tipo |-> tipo, msg |-> "", ctx |-> "None"]

\* raise ArchivoError(msg) inside "except <ctx>:".
ArchivoError(msg, ctx) == [tipo |-> "ArchivoError", msg |-> msg, ctx |-> ctx]

\* raise ConexionError(msg) inside "except <ctx>:" (ctx "None": raised
\* outside any except clause).
ConexionError(msg, ctx) == [tipo |-> "ConexionError", msg |-> msg, ctx |-> ctx]

\* The except clauses of ClienteSocket.conectar, first match wins.
MsgConectar(exc) ==
    IF exc = "socket.timeout" THEN "Timeout al conectar con"
    ELSE IF exc = "socket.gaierror" THEN "No se pudo resolver el host"
    ELSE IF exc = "ConnectionRefusedError" THEN "Conexion rechazada por"
    ELSE "Error inesperado al conectar"

\* MsgEnviar with the BrokenPipeError clause carrying the generic message.
MsgEnviar_generico(exc) ==
    IF exc = "socket.timeout" THEN "Timeout al enviar datos"
    ELSE "Error al enviar datos"

\* The except clauses of ClienteSocket.enviar_datos, first match wins.
MsgEnviar(exc) ==
    IF exc = "socket.timeout" THEN "Timeout al enviar datos"
    ELSE IF exc = "BrokenPipeError" THEN "La conexion se cerro inesperadamente"
    ELSE "Error al enviar datos"

\* ----------------------------------------------------------------- UTF-8
EsSurrogado(cp) == cp >= 55296 /\ cp <= 57343

Utf8(cp) ==
    IF cp < 128 THEN <<cp>>
    ELSE IF cp < 2048 THEN <<192 + (cp \div 64), 128 + (cp % 64)>>
    ELSE IF cp < 65536
         THEN <<224 + (cp \div 4096), 128 + ((cp \div 64) % 64), 128 + (cp % 64)>>
    ELSE <<240 + (cp \div 262144), 128 + ((cp \div 4096) % 64),
           128 + ((cp \div 64) % 64), 128 + (cp % 64)>>

RECURSIVE Encode(_)
\* datos.encode('utf-8') when it returns.
Encode(datos) ==
    IF datos = << >> THEN << >> ELSE Utf8(Head(datos)) \o Encode(Tail(datos))

\* datos.encode('utf-8') raises UnicodeEncodeError on a lone surrogate.
Codificable(datos) == \A i \in 1..Len(datos) : ~EsSurrogado(datos[i])

\* ----------------------------------------------------------------- state
VARIABLES
    _socket,      \* ClienteSocket._socket: None or the id of a socket
    _conectado,   \* Conexion._conectado
    _timeout,     \* ClienteSocket._timeout
    creados,      \* number of sockets created so far (ids 1..creados)
    abiertos,     \* ids of the sockets whose descriptor is still open
    op,           \* the last call made by the caller
    resultado,    \* NoError if the last call returned, else what it raised
    falloPrevio,  \* the latest failed call before the last one: [op, err]
    traza,        \* socket-level events of the last call, in order
    datosUlt,     \* the argument of the last enviar_datos
    entregados,   \* bytes the last call handed to the socket
    antes,        \* the client's fields when the last call began
    _archivo_actual,  \* ManejadorArchivos._archivo_actual: None or a path
    _datos,       \* ManejadorArchivos._datos: None or a table
    retorno,      \* what the last call returned
    mensaje,      \* title of the message box the last GUI handler showed
    send_button,  \* state of the send button of the window
    texto         \* the lines of the delimited-text file on disk

cliente == <<_socket, _conectado, _timeout, creados, abiertos, datosUlt,
             entregados>>
manejador == <<_archivo_actual, _datos>>
vars == <<_socket, _conectado, _timeout, creados, abiertos, op, resultado,
          falloPrevio, traza, datosUlt, entregados, antes,
          _archivo_actual, _datos, retorno, mensaje, send_button, texto>>
ventana == <<mensaje, send_button>>

\* --------------------------------------------------- the client's methods
\* The methods are operators on a record of the instance's fields, the
\* sockets of the process and what the call has done so far:
\*   sock, con, timeout : self._socket, self._conectado, self._timeout
\*   creados, abiertos  : the sockets created / still open
\*   traza              : the socket calls made, in order
\*   entregados         : the bytes handed to the socket
\*   err                : the exception the call raised (NoError: none)
Estado ==
    [sock |-> _socket, con |-> _conectado, timeout |-> _timeout,
     creados |-> creados, abiertos |-> abiertos,
     traza |-> << >>, entregados |-> << >>, err |-> NoError]

\* desconectar with the two resets inside the try, after close(), instead of
\* in the finally clause.
desconectar_sinFinally(st, closeExc) ==
    IF st.sock # None
    THEN IF closeExc = "ok"
         THEN [st EXCEPT !.abiertos = @ \ {st.sock},
                         !.traza = Append(@, <<"close", st.sock, closeExc>>),
                         !.sock = None,
                         !.con = FALSE]
         ELSE [st EXCEPT !.abiertos = @ \ {st.sock},
                         !.traza = Append(@, <<"close", st.sock, closeExc>>)]
    ELSE st

\* desconectar clearing the socket reference and leaving the connected flag.
desconectar_soloSocket(st, closeExc) ==
    IF st.sock # None
    THEN [st EXCEPT !.abiertos = @ \ {st.sock},
                    !.traza = Append(@, <<"close", st.sock, closeExc>>),
                    !.sock = None]
    ELSE st

\* ClienteSocket.desconectar. closeExc is what socket.close() ends with; the
\* descriptor is released either way and the bare except swallows the error.
desconectar(st, closeExc) ==
    IF st.sock # None
    THEN [st EXCEPT !.abiertos = @ \ {st.sock},
                    !.traza = Append(@, <<"close", st.sock, closeExc>>),
                    !.sock = None,
                    !.con = FALSE]
    ELSE st

\* socket.socket.connect with a timeout of t seconds: with t = 0 the socket is
\* non-blocking and the call cannot complete the handshake nor time out.
ResConnectDe(t) ==
    IF t = 0 THEN ResConnect \ {"ok", "socket.timeout"} ELSE ResConnect

\* The body of the try block of ClienteSocket.conectar after the implicit
\* disconnect, with its except clauses. in.socketExc: what socket.socket()
\* ends with; in.gc: whether the runtime finalizes (closes) a socket object
\* at the moment its last reference is overwritten; in.res: what connect()
\* ends with.
abrir_y_conectar(s1, in) ==
    IF in.socketExc # "ok"
    THEN [s1 EXCEPT !.traza = Append(@, <<"socket", None, in.socketExc>>),
                    !.err = ConexionError(MsgConectar(in.socketExc),
                                          in.socketExc)]
    ELSE
    LET id == s1.creados + 1
        vieja == s1.sock
        s2 == [s1 EXCEPT
                 !.creados = id,
                 !.sock = id,
                 !.abiertos = (IF vieja # None /\ in.gc
                               THEN @ \ {vieja} ELSE @) \cup {id},
                 !.traza = Append(@, <<"socket", id, "ok">>)]
    IN  IF s2.timeout < 0
        THEN [s2 EXCEPT
                !.traza = Append(@, <<"settimeout", id, "ValueError">>),
                !.err = ConexionError(MsgConectar("ValueError"), "ValueError")]
        ELSE
        LET s3 == [s2 EXCEPT
                     !.traza = @ \o <<(<<"settimeout", id, "ok">>),
                                      (<<"connect", id, in.res>>)>>]
        IN  IF in.res = "ok"
            THEN [s3 EXCEPT !.con = TRUE]
            ELSE [s3 EXCEPT !.err = ConexionError(MsgConectar(in.res), in.res)]

\* conectar without the implicit disconnect.
conectar_sinDesconectar(st, in) == abrir_y_conectar(st, in)

\* conectar with the connected flag set before connect() is called.
conectar_flagAntes(st, in) ==
    LET r == abrir_y_conectar(IF st.con THEN desconectar(st, in.closeExc)
                              ELSE st, in)
    IN  IF in.socketExc = "ok" THEN [r EXCEPT !.con = TRUE] ELSE r

\* conectar calling connect() a second time after a failed connect().
conectar_reintenta(st, in) ==
    LET r == abrir_y_conectar(IF st.con THEN desconectar(st, in.closeExc)
                              ELSE st, in)
    IN  IF r.err # NoError /\ in.socketExc = "ok" /\ r.timeout >= 0
        THEN [r EXCEPT !.traza = Append(@, <<"connect", r.sock, in.res>>)]
        ELSE r

\* ClienteSocket.conectar. in.closeExc: what close() ends with in the
\* implicit disconnect; the rest of in as for abrir_y_conectar.
conectar(st, in) ==
    abrir_y_conectar(IF st.con THEN desconectar(st, in.closeExc) ELSE st, in)

\* socket.socket.sendall(b): returns once every byte is handed over, or
\* raises exc after handing over the first n bytes.
sendall(b, exc, n) ==
    [entregados |-> IF exc = "ok" THEN b ELSE SubSeq(b, 1, n), exc |-> exc]

\* The n a failing sendall can stop at, short of the whole payload: nothing,
\* one byte, half of the bytes, all but the last byte.
Parciales(b) ==
    {n \in {0, 1, Len(b) \div 2, Len(b) - 1} : n >= 0 /\ (n < Len(b) \/ n = 0)}

\* enviar_datos testing only the socket reference, not the connected flag.
enviar_datos_sinGuarda(st, datos, exc, n) ==
    IF st.sock = None
    THEN [st EXCEPT !.err = ConexionError("No hay conexion establecida", "None")]
    ELSE IF ~Codificable(datos)
    THEN [st EXCEPT !.err = ConexionError(MsgEnviar("UnicodeEncodeError"),
                                          "UnicodeEncodeError")]
    ELSE LET r == sendall(Encode(datos), exc, n)
             s1 == [st EXCEPT !.traza = Append(@, <<"sendall", st.sock, exc>>),
                              !.entregados = r.entregados]
         IN  IF r.exc = "ok"
             THEN s1
             ELSE [s1 EXCEPT !.err = ConexionError(MsgEnviar(r.exc), r.exc)]

\* enviar_datos swallowing the exceptions of sendall.
enviar_datos_traga(st, datos, exc, n) ==
    IF ~st.con \/ st.sock = None
    THEN [st EXCEPT !.err = ConexionError("No hay conexion establecida", "None")]
    ELSE IF ~Codificable(datos)
    THEN [st EXCEPT !.err = ConexionError(MsgEnviar("UnicodeEncodeError"),
                                          "UnicodeEncodeError")]
    ELSE LET r == sendall(Encode(datos), exc, n)
         IN  [st EXCEPT !.traza = Append(@, <<"sendall", st.sock, exc>>),
                        !.entregados = r.entregados]

\* enviar_datos tearing the connection down when sendall raises.
enviar_datos_desconecta(st, datos, exc, n) ==
    IF ~st.con \/ st.sock = None
    THEN [st EXCEPT !.err = ConexionError("No hay conexion establecida", "None")]
    ELSE IF ~Codificable(datos)
    THEN [st EXCEPT !.err = ConexionError(MsgEnviar("UnicodeEncodeError"),
                                          "UnicodeEncodeError")]
    ELSE LET r == sendall(Encode(datos), exc, n)
             s1 == [st EXCEPT !.traza = Append(@, <<"sendall", st.sock, exc>>),
                              !.entregados = r.entregados]
         IN  IF r.exc = "ok"
             THEN s1
             ELSE [desconectar(s1, "ok") EXCEPT
                      !.err = ConexionError(MsgEnviar(r.exc), r.exc)]

\* ClienteSocket.enviar_datos.
enviar_datos(st, datos, exc, n) ==
    IF ~st.con \/ st.sock = None
    THEN [st EXCEPT !.err = ConexionError("No hay conexion establecida", "None")]
    ELSE IF ~Codificable(datos)
    THEN [st EXCEPT !.err = ConexionError(MsgEnviar("UnicodeEncodeError"),
                                          "UnicodeEncodeError")]
    ELSE LET r == sendall(Encode(datos), exc, n)
             s1 == [st EXCEPT !.traza = Append(@, <<"sendall", st.sock, exc>>),
                              !.entregados = r.entregados]
         IN  IF r.exc = "ok"
             THEN s1
             ELSE [s1 EXCEPT !.err = ConexionError(MsgEnviar(r.exc), r.exc)]

\* ------------------------------------------------------ tables and JSON
\* A cell is a string, a number (its digits) or null; strings are sequences
\* of code points.
Str(v) == [t |-> "str", v |-> v]
Num(v) == [t |-> "num", v |-> v]
Null == [t |-> "null", v |-> << >>]

\* Column names "p" and "a"; cells "ñ", "/", "x", 1, 30 and null. The last
\* table has the four columns of a file read by _procesar_archivo_espacios,
\* with names that repeat and every cell a string.
ColP == <<112>>
ColA == <<97>>
Tablas ==
    { [columnas |-> <<ColP, ColA>>, filas |-> << >>],
      [columnas |-> <<ColP, ColA>>, filas |-> <<(<<Str(<<241>>), Num(<<49>>)>>)>>],
      [columnas |-> <<ColP, ColA>>,
       filas |-> <<(<<Str(<<47>>), Null>>),
                   (<<Str(<<120>>), Num(<<51, 48>>)>>)>>],
      [columnas |-> <<ColP, ColA, ColP, ColA>>,
       filas |-> <<(<<Str(<<241>>), Str(<<49>>), Str(<<120>>),
                      Str(<<51, 48>>)>>)>>] }

\* DataFrame.empty looking at the columns only.
Empty_soloColumnas(t) == Len(t.columnas) = 0

\* DataFrame.empty: some axis has length 0.
Empty(t) == Len(t.filas) = 0 \/ Len(t.columnas) = 0

\* The JSON writer escapes the quote, the backslash and the slash.
Escapar(cp) == IF cp \in {34, 92, 47} THEN <<92, cp>> ELSE <<cp>>

RECURSIVE JsonCadena(_)
JsonCadena(v) ==
    IF v = << >> THEN << >> ELSE Escapar(Head(v)) \o JsonCadena(Tail(v))

JsonValor(c) ==
    IF c.t = "str" THEN <<34>> \o JsonCadena(c.v) \o <<34>>
    ELSE IF c.t = "num" THEN c.v
    ELSE <<110, 117, 108, 108>>

RECURSIVE JsonFila(_, _, _)
\* "col":value of columns i.. of one row, joined by commas.
JsonFila(cols, fila, i) ==
    IF i > Len(cols) THEN << >>
    ELSE (IF i > 1 THEN <<44>> ELSE << >>)
         \o <<34>> \o JsonCadena(cols[i]) \o <<34, 58>> \o JsonValor(fila[i])
         \o JsonFila(cols, fila, i + 1)

RECURSIVE JsonFilas(_, _)
JsonFilas(t, i) ==
    IF i > Len(t.filas) THEN << >>
    ELSE (IF i > 1 THEN <<44>> ELSE << >>)
         \o <<123>> \o JsonFila(t.columnas, t.filas[i], 1) \o <<125>>
         \o JsonFilas(t, i + 1)

\* DataFrame.to_json(orient='records', force_ascii=False) when it returns.
ToJson(t) == <<91>> \o JsonFilas(t, 1) \o <<93>>

\* to_json(orient='records') raises ValueError when column names repeat.
ColumnasUnicas(t) ==
    \A i, j \in 1..Len(t.columnas) : t.columnas[i] = t.columnas[j] => i = j

\* ------------------------------------------------- the file manager's paths
\* Path(ruta): name and suffix; the third file has no data.
Rutas == { [nombre |-> "datos", suffix |-> ".csv"],
           [nombre |-> "datos", suffix |-> ".XLSX"],
           [nombre |-> "tabla", suffix |-> ".txt"],
           [nombre |-> "notas", suffix |-> ".pdf"] }

\* str.lower() on the suffixes in use.
Lower(sfx) ==
    IF sfx = ".XLSX" THEN ".xlsx"
    ELSE IF sfx = ".CSV" THEN ".csv"
    ELSE IF sfx = ".TXT" THEN ".txt"
    ELSE IF sfx = ".XLS" THEN ".xls"
    ELSE sfx

\* The spreadsheet suffixes with .csv among them.
EXTENSIONES_EXCEL_conCsv == {".xlsx", ".xls", ".csv"}

EXTENSIONES_EXCEL == {".xlsx", ".xls"}
EXTENSIONES_CSV == {".csv", ".txt"}
EXTENSIONES_PERMITIDAS == EXTENSIONES_EXCEL \cup EXTENSIONES_CSV

\* What a reader ends with: a table, or an exception.
ExcLectura == {"EmptyDataError", "ParserError", "UnicodeDecodeError"}
Lecturas == Tablas \cup {Excepcion(e) : e \in ExcLectura}
EsTabla(l) == "columnas" \in DOMAIN l

\* The separators _detectar_delimitador returns.
Delimitadores == {",", "\t", ";", " "}

\* What the reader of a load of ruta can end with when the separator detected
\* is d: pd.read_excel and pd.read_csv rename the column names that repeat,
\* pd.DataFrame(..., columns=encabezados) in _procesar_archivo_espacios keeps
\* them as they are.
LecturasDe(ruta, d) ==
    IF Lower(ruta.suffix) \in EXTENSIONES_CSV /\ d = " "
    THEN Lecturas
    ELSE {l \in Lecturas : EsTabla(l) => ColumnasUnicas(l)}

\* What Path.stat() ends with: st_size in bytes, or an exception.
ExcStat == {"FileNotFoundError", "PermissionError"}
Stats == {[exc |-> "ok", st_size |-> 2048]}
             \cup {[exc |-> e, st_size |-> 0] : e \in ExcStat}

\* self._archivo_actual = None, self._datos = None, and a call returning None
Nada == [t |-> "None"]

\* ------------------------------------------- the text of a delimited file
\* A file is a sequence of lines, each ended by "\n". A line is a sequence of
\* runs [c, n]: n copies of the character with code point c. The characters
\* in use are the letters, the digits, the three separators and the space;
\* none is a quote character.
Run(c, n) == [c |-> c, n |-> n]
Car(c) == Run(c, 1)

Coma == 44
Tab == 9
PuntoYComa == 59
Espacio == 32

\* str.isspace() on the characters in use.
EsBlanco(c) == c \in {9, 10, 11, 12, 13, 32}

RECURSIVE Largo(_)
\* len(linea)
Largo(linea) ==
    IF linea = << >> THEN 0 ELSE Head(linea).n + Largo(Tail(linea))

RECURSIVE Prefijo(_, _)
\* linea[:k]
Prefijo(linea, k) ==
    IF linea = << >> \/ k <= 0 THEN << >>
    ELSE IF Head(linea).n >= k THEN <<Run(Head(linea).c, k)>>
    ELSE <<Head(linea)>> \o Prefijo(Tail(linea), k - Head(linea).n)

RECURSIVE Cuenta(_, _)
\* linea.count(ch)
Cuenta(linea, ch) ==
    IF linea = << >> THEN 0
    ELSE (IF Head(linea).c = ch THEN Head(linea).n ELSE 0)
         + Cuenta(Tail(linea), ch)

RECURSIVE Cortar(_, _)
\* (the first k characters of the file).split('\n'): the whole lines, then
\* the piece of the line the cut falls in, empty when it falls after "\n".
Cortar(lineas, k) ==
    IF lineas = << >> THEN << << >> >>
    ELSE IF Largo(Head(lineas)) >= k THEN <<Prefijo(Head(lineas), k)>>
    ELSE <<Head(lineas)>> \o Cortar(Tail(lineas), k - Largo(Head(lineas)) - 1)

\* archivo.read(2048)
TamMuestra == 2048

\* muestra.split('\n') for muestra = archivo.read(2048).
Muestra(contenido) == Cortar(contenido, TamMuestra)

RECURSIVE strip_izq(_)
strip_izq(linea) ==
    IF linea = << >> THEN << >>
    ELSE IF EsBlanco(Head(linea).c) \/ Head(linea).n = 0
    THEN strip_izq(Tail(linea)) ELSE linea

RECURSIVE strip_der(_)
strip_der(linea) ==
    IF linea = << >> THEN << >>
    ELSE IF EsBlanco(linea[Len(linea)].c) \/ linea[Len(linea)].n = 0
    THEN strip_der(SubSeq(linea, 1, Len(linea) - 1)) ELSE linea

\* linea.strip()
strip(linea) == strip_der(strip_izq(linea))

\* Positions of the runs that begin a token of linea.split(): a run of a
\* non-blank character at the start of the line or after a blank.
Inicios(linea) ==
    {i \in 1..Len(linea) :
        /\ ~EsBlanco(linea[i].c)
        /\ (i = 1 \/ EsBlanco(linea[i - 1].c))}

\* len(linea.split())
NumPartes(linea) == Cardinality(Inicios(linea))

\* The characters of the enumerated files: "a", a run of "x" as long as the
\* sample, and the four separators.
Relleno == Run(120, TamMuestra)
Simbolos == {Car(97), Relleno, Car(Coma), Car(Tab), Car(PuntoYComa),
             Car(Espacio)}
Lineas == UNION {[1..n -> Simbolos] : n \in 0..MaxRuns}
Textos == UNION {[1..n -> Lineas] : n \in 0..MaxLineas}

\* Files of more than 10 lines: a blank line, nine copies of a line of at
\* most two characters or runs, and one more such line.
LineasCortas == UNION {[1..n -> Simbolos] : n \in 0..2}
TextosLargos ==
    {<< << >> >> \o [i \in 1..9 |-> a] \o <<b>> : a, b \in LineasCortas}

\* ------------------------------------------------- separator detection
\* delimitadores_csv and delimitadores_todos, in the order of the lists.
delimitadores_csv == <<Coma, Tab, PuntoYComa>>
delimitadores_todos == <<Coma, Tab, PuntoYComa, Espacio>>

\* SelectSeq without a test operator: the elements of sq at the positions in P.
RECURSIVE Filtrar(_, _, _)
Filtrar(sq, P, i) ==
    IF i > Len(sq) THEN << >>
    ELSE (IF i \in P THEN <<sq[i]>> ELSE << >>) \o Filtrar(sq, P, i + 1)

\* csv.Sniffer._guess_delimiter for the character ch on the lines data (one
\* chunk, at most 10 lines): the mode of the numbers of ch per line, the
\* first one met among the most frequent, and the number of lines that have
\* it less the number of lines that do not.
Moda(data, ch) ==
    LET freq == [i \in 1..Len(data) |-> Cuenta(data[i], ch)]
        veces == [i \in 1..Len(data) |->
                     Cardinality({j \in 1..Len(data) : freq[j] = freq[i]})]
        im == CHOOSE i \in 1..Len(data) :
                  /\ \A j \in 1..Len(data) : veces[j] <= veces[i]
                  /\ \A j \in 1..(i - 1) : veces[j] < veces[i]
    IN  [f |-> freq[im], v |-> 2 * veces[im] - Len(data)]

\* csv.Sniffer().sniff(muestra, delimiters=',\t;') on a sample without quote
\* characters and of at most 10 non-empty lines: the separator, or 0 for
\* csv.Error. The candidates are the characters whose mode is positive and
\* met by the share of lines asked for, 100% lowered by 1% down to 90% until
\* there is a candidate; among several the first of Sniffer.preferred, in
\* which comma, tab and semicolon come in this order.
sniff(piezas) ==
    LET data == Filtrar(piezas, {i \in 1..Len(piezas) : piezas[i] # << >>}, 1)
        total == Len(data)
        modes == [k \in 1..Len(delimitadores_csv) |->
                     Moda(data, delimitadores_csv[k])]
        cand(pct) == {k \in 1..Len(delimitadores_csv) :
                        /\ modes[k].f > 0 /\ modes[k].v > 0
                        /\ 100 * modes[k].v >= pct * total}
        niveles == {pct \in 90..100 : cand(pct) # {}}
    IN  IF total = 0 \/ niveles = {} THEN 0
        ELSE LET pct == CHOOSE x \in niveles : \A y \in niveles : y <= x
                 k == CHOOSE x \in cand(pct) : \A y \in cand(pct) : x <= y
             IN  delimitadores_csv[k]

\* columnas for one line of the sample under the separator d:
\* len(re.sub(r'\s+', ' ', linea.strip()).split(' ')) for the space,
\* len(linea.split(d)) otherwise.
NumColumnas(linea, d) ==
    IF d = Espacio THEN NumPartes(linea) ELSE Cuenta(linea, d) + 1

\* lineas_muestra: the non-blank ones of the first 10 lines of the sample,
\* stripped.
LineasMuestra(contenido) ==
    LET piezas == Muestra(contenido)
        primeras == SubSeq(piezas, 1, IF Len(piezas) < 10 THEN Len(piezas)
                                      ELSE 10)
    IN  Filtrar([i \in 1..Len(primeras) |-> strip(primeras[i])],
                {i \in 1..Len(primeras) : strip(primeras[i]) # << >>}, 1)

\* The manual analysis of _detectar_delimitador for one separator: the
\* numbers of columns of the lines, their count and their sum, and the number
\* of different values among them.
Columnas(lineas_muestra, d) ==
    LET columnas_por_linea ==
            [i \in 1..Len(lineas_muestra) |->
                NumColumnas(lineas_muestra[i], d)]
        RECURSIVE Suma(_)
        Suma(i) == IF i = 0 THEN 0 ELSE columnas_por_linea[i] + Suma(i - 1)
    IN  [delimitador |-> d,
         lineas |-> Len(lineas_muestra),
         unicas |-> Cardinality({columnas_por_linea[i] :
                                    i \in 1..Len(lineas_muestra)}),
         suma |-> Suma(Len(lineas_muestra))]

\* The key compared by consistencia alone.
ClaveMayor_soloConsistencia(a, b) == a.lineas * b.unicas > b.lineas * a.unicas

\* key=lambda x: (x['consistencia'], x['promedio_columnas']) compared as
\* tuples: a's key is greater than b's. consistencia = lineas / unicas and
\* promedio_columnas = suma / lineas.
ClaveMayor(a, b) ==
    \/ a.lineas * b.unicas > b.lineas * a.unicas
    \/ /\ a.lineas * b.unicas = b.lineas * a.unicas
       /\ a.suma * b.lineas > b.suma * a.lineas

\* ManejadorArchivos._detectar_delimitador on the text of the file.
_detectar_delimitador(contenido) ==
    LET piezas == Muestra(contenido)
        s == sniff(piezas)
        lineas_muestra == LineasMuestra(contenido)
        res == [k \in 1..Len(delimitadores_todos) |->
                   Columnas(lineas_muestra, delimitadores_todos[k])]
        \* promedio_columnas >= 2
        mejores_resultados ==
            {k \in 1..Len(delimitadores_todos) :
                res[k].suma >= 2 * res[k].lineas}
        \* max(): the first of the greatest
        mejor == CHOOSE k \in mejores_resultados :
                     \A j \in mejores_resultados :
                         /\ ~ClaveMayor(res[j], res[k])
                         /\ j < k => ClaveMayor(res[k], res[j])
    IN  IF s # 0 THEN s
        ELSE IF lineas_muestra = << >> THEN Coma
        ELSE IF mejores_resultados # {}
                /\ 10 * res[mejor].lineas >= 8 * res[mejor].unicas
        THEN delimitadores_todos[mejor]
        ELSE Coma

\* ------------------------------------------- run-of-spaces reconstruction
RECURSIVE Expandir(_)
\* The characters of a sequence of runs, as a string of code points.
Expandir(runs) ==
    IF runs = << >> THEN << >>
    ELSE [i \in 1..Head(runs).n |-> Head(runs).c] \o Expandir(Tail(runs))

RECURSIVE split(_)
\* linea.split(): the maximal pieces of the line that have no blank.
split(linea) ==
    LET l == strip_izq(linea)
    IN  IF l = << >> THEN << >>
        ELSE LET fin == CHOOSE k \in 1..Len(l) :
                            /\ \A j \in 1..k : ~EsBlanco(l[j].c)
                            /\ (k = Len(l) \/ EsBlanco(l[k + 1].c))
             IN  <<Expandir(SubSeq(l, 1, fin))>>
                     \o split(SubSeq(l, fin + 1, Len(l)))

RECURSIVE join(_)
\* ' '.join(partes)
join(partes) ==
    IF partes = << >> THEN << >>
    ELSE IF Len(partes) = 1 THEN partes[1]
    ELSE partes[1] \o <<Espacio>> \o join(Tail(partes))

\* The body of the loop keeping the first four words of a line of more than
\* four, without joining any.
FilaDe_sinUnir(partes) ==
    LET n == Len(partes)
    IN  IF n >= 4 THEN <<SubSeq(partes, 1, 4)>>
        ELSE IF n = 3 THEN <<Append(partes, << >>)>>
        ELSE << >>

\* The body of the loop padding the lines of one or two words as well.
FilaDe_rellenaCortas(partes) ==
    LET n == Len(partes)
        RECURSIVE Rellenar(_)
        Rellenar(q) == IF Len(q) >= 4 THEN q ELSE Rellenar(Append(q, << >>))
    IN  IF n = 4 THEN <<partes>>
        ELSE IF n > 4
        THEN << <<join(SubSeq(partes, 1, n - 3)), partes[n - 2],
                  partes[n - 1], partes[n]>> >>
        ELSE IF n >= 1 THEN <<Rellenar(partes)>>
        ELSE << >>

\* The body of the loop of _procesar_archivo_espacios for a data line: the
\* rows it appends to datos_procesados, one or none.
FilaDe(partes) ==
    LET n == Len(partes)
    IN  IF n = 4 THEN <<partes>>
        ELSE IF n > 4
        THEN << <<join(SubSeq(partes, 1, n - 3)), partes[n - 2],
                  partes[n - 1], partes[n]>> >>
        ELSE IF n = 3 THEN <<Append(partes, << >>)>>
        ELSE << >>

RECURSIVE datos_procesados(_, _)
\* datos_procesados after the loop has gone through the lines i.. of the file.
datos_procesados(lineas, i) ==
    IF i > Len(lineas) THEN << >>
    ELSE FilaDe(split(lineas[i])) \o datos_procesados(lineas, i + 1)

\* The column names 'anio' and 'perdida_ha'.
Anio == <<97, 110, 105, 111>>
PerdidaHa == <<112, 101, 114, 100, 105, 100, 97, 95, 104, 97>>

\* A string of decimal digits: the strings in use that pd.to_numeric reads
\* as a number.
EsNumero(v) == v # << >> /\ \A i \in 1..Len(v) : v[i] \in 48..57

RECURSIVE SinCeros(_)
\* The digits of the integer a string of digits stands for.
SinCeros(v) == IF Len(v) > 1 /\ v[1] = 48 THEN SinCeros(Tail(v)) ELSE v

\* df[col] = pd.to_numeric(df[col], errors='coerce') on column k of the rows:
\* integers when every cell is a number; otherwise floats, with NaN (null
\* once serialized) for the cells that are not numbers.
Coercionar(filas, k) ==
    LET todos == \A i \in 1..Len(filas) : EsNumero(filas[i][k].v)
        celda(c) == IF ~EsNumero(c.v) THEN Null
                    ELSE IF todos THEN Num(SinCeros(c.v))
                    ELSE Num(SinCeros(c.v) \o <<46, 48>>)
    IN  [i \in 1..Len(filas) |-> [filas[i] EXCEPT ![k] = celda(@)]]

\* The try block that converts 'anio' and then 'perdida_ha': df[col] of a
\* name that repeats is not a column, pd.to_numeric raises on it and the
\* except clause leaves the rest as it is.
ConvertirTipos(t) ==
    LET pos(nombre) == {k \in 1..Len(t.columnas) : t.columnas[k] = nombre}
        unica(nombre) == CHOOSE k \in pos(nombre) : TRUE
        t1 == IF Cardinality(pos(Anio)) = 1
              THEN [t EXCEPT !.filas = Coercionar(@, unica(Anio))] ELSE t
    IN  IF Cardinality(pos(Anio)) > 1 THEN t
        ELSE IF Cardinality(pos(PerdidaHa)) = 1
        THEN [t1 EXCEPT !.filas = Coercionar(@, unica(PerdidaHa))]
        ELSE t1

\* The try block of _procesar_archivo_espacios on lineas = archivo.readlines():
\* the table, or the exception raised. lectura: what the fallback
\* pd.read_csv(archivo_path, sep=r'\s+', engine='python') ends with.
\* pd.DataFrame raises ValueError when the header has not the 4 names of the
\* rows.
procesar_lineas(lineas, lectura) ==
    IF lineas = << >> THEN Excepcion("ArchivoError")
    ELSE LET encabezados == split(lineas[1])
             datos == datos_procesados(lineas, 2)
         IN  IF encabezados # << >> /\ datos # << >>
             THEN IF Len(encabezados) # 4 THEN Excepcion("ValueError")
                  ELSE ConvertirTipos(
                           [columnas |-> encabezados,
                            filas |-> [i \in 1..Len(datos) |->
                                          [k \in 1..4 |-> Str(datos[i][k])]]])
             ELSE lectura

\* The words of the files separated by runs of spaces: "name", "age",
\* "Ana", "Maria", "Luis", "x", "30", "41".
Name == <<110, 97, 109, 101>>
Age == <<97, 103, 101>>
Ana == <<65, 110, 97>>
Maria == <<77, 97, 114, 105, 97>>
Luis == <<76, 117, 105, 115>>
Equis == <<120>>
Treinta == <<51, 48>>
CuarentaYUno == <<52, 49>>

\* The line made of the words partes with a run of k spaces between them.
LineaDe(partes, k) ==
    LET RECURSIVE L(_)
        L(i) == IF i > Len(partes) THEN << >>
                ELSE (IF i > 1 THEN <<Run(Espacio, k)>> ELSE << >>)
                     \o [j \in 1..Len(partes[i]) |-> Car(partes[i][j])]
                     \o L(i + 1)
    IN  L(1)

\* First lines: blank, two names, four names one of them 'anio', four names
\* that repeat.
Cabeceras ==
    {LineaDe(h, 1) : h \in {<< >>, <<Name, Age>>, <<ColP, ColA, Anio, Equis>>,
                            <<ColP, ColA, ColP, ColA>>}}

\* Data lines of 0 to 5 words, one of them with two spaces between words.
LineasDeDatos ==
    {LineaDe(d, 1) : d \in {<< >>, <<Ana>>, <<Luis, CuarentaYUno>>,
                            <<Ana, Maria, Treinta>>,
                            <<Luis, Equis, CuarentaYUno, Treinta>>,
                            <<Ana, Equis, Equis, CuarentaYUno>>,
                            <<Ana, Maria, Equis, Treinta, CuarentaYUno>>}}
        \cup {LineaDe(<<Ana, Maria, Treinta>>, 2)}

TextosEspacios ==
    {<<h>> \o d : h \in Cabeceras,
                  d \in UNION {[1..n -> LineasDeDatos] : n \in 0..MaxDatos}}

\* ------------------------------------------------ the file manager's methods
\* ManejadorArchivos.tiene_datos on a value of _datos.
tiene_datos(datos) == datos # Nada /\ ~Empty(datos)

\* The except clauses of ManejadorArchivos.cargar_archivo, first match wins.
MsgCargar(exc) ==
    IF exc = "EmptyDataError" THEN "El archivo esta vacio o corrupto"
    ELSE IF exc = "ParserError" THEN "Error al parsear el archivo"
    ELSE "Error inesperado al cargar el archivo"

\* ManejadorArchivos._procesar_archivo_espacios: every exception of the
\* reading is raised again as ArchivoError.
procesar_archivo_espacios(lectura) ==
    IF EsTabla(lectura) THEN lectura
    ELSE ArchivoError("Error al procesar archivo con espacios", lectura.tipo)

\* cargar_archivo storing the path as soon as it is known to exist and to be
\* supported, before the file is read.
cargar_archivo_guardaAntes(m, ruta, in) ==
    LET falla(e, a, tr) == [archivo |-> a, datos |-> m.datos,
                            err |-> ArchivoError(MsgCargar(e.tipo), e.tipo),
                            ret |-> Nada, traza |-> tr]
        t0 == <<(<<"exists", ruta.nombre, in.existe>>)>>
    IN  IF ~in.existe
        THEN falla(ArchivoError("El archivo no existe", "None"), m.archivo, t0)
        ELSE IF Lower(ruta.suffix) \notin EXTENSIONES_PERMITIDAS
        THEN falla(ArchivoError("Formato de archivo no soportado", "None"),
                   m.archivo, t0)
        ELSE
        LET excel == Lower(ruta.suffix) \in EXTENSIONES_EXCEL
            t1 == IF excel
                  THEN Append(t0, <<"read_excel", ruta.nombre, "">>)
                  ELSE t0 \o <<(<<"_detectar_delimitador", ruta.nombre,
                                  in.delimitador>>),
                               (IF in.delimitador = " "
                                THEN <<"_procesar_archivo_espacios",
                                       ruta.nombre, "">>
                                ELSE <<"read_csv", ruta.nombre,
                                       in.delimitador>>)>>
            leido == IF ~excel /\ in.delimitador = " "
                     THEN procesar_archivo_espacios(in.lectura)
                     ELSE in.lectura
        IN  IF ~EsTabla(leido) THEN falla(leido, ruta, t1)
            ELSE IF Empty(leido)
            THEN falla(ArchivoError("El archivo esta vacio", "None"), ruta, t1)
            ELSE [archivo |-> ruta, datos |-> leido, err |-> NoError,
                  ret |-> [t |-> "tabla", v |-> leido], traza |-> t1]

\* cargar_archivo detecting the separator of every existing file before it
\* looks at the suffix.
cargar_archivo_detectaPrimero(m, ruta, in) ==
    LET falla(e, tr) == [archivo |-> m.archivo, datos |-> m.datos,
                         err |-> ArchivoError(MsgCargar(e.tipo), e.tipo),
                         ret |-> Nada, traza |-> tr]
        t0 == <<(<<"exists", ruta.nombre, in.existe>>)>>
        td == Append(t0, <<"_detectar_delimitador", ruta.nombre,
                           in.delimitador>>)
    IN  IF ~in.existe
        THEN falla(ArchivoError("El archivo no existe", "None"), t0)
        ELSE IF Lower(ruta.suffix) \notin EXTENSIONES_PERMITIDAS
        THEN falla(ArchivoError("Formato de archivo no soportado", "None"), td)
        ELSE
        LET excel == Lower(ruta.suffix) \in EXTENSIONES_EXCEL
            t1 == IF excel
                  THEN Append(td, <<"read_excel", ruta.nombre, "">>)
                  ELSE Append(td, IF in.delimitador = " "
                                  THEN <<"_procesar_archivo_espacios",
                                         ruta.nombre, "">>
                                  ELSE <<"read_csv", ruta.nombre,
                                         in.delimitador>>)
            leido == IF ~excel /\ in.delimitador = " "
                     THEN procesar_archivo_espacios(in.lectura)
                     ELSE in.lectura
        IN  IF ~EsTabla(leido) THEN falla(leido, t1)
            ELSE IF Empty(leido)
            THEN falla(ArchivoError("El archivo esta vacio", "None"), t1)
            ELSE [archivo |-> ruta, datos |-> leido, err |-> NoError,
                  ret |-> [t |-> "tabla", v |-> leido], traza |-> t1]

\* ManejadorArchivos.cargar_archivo on the fields m = [archivo, datos].
\* in.existe: Path.exists(); in.delimitador: the separator detected;
\* in.lectura: what the reader called ends with.
cargar_archivo(m, ruta, in) ==
    LET falla(e, tr) == [archivo |-> m.archivo, datos |-> m.datos,
                         err |-> ArchivoError(MsgCargar(e.tipo), e.tipo),
                         ret |-> Nada, traza |-> tr]
        t0 == <<(<<"exists", ruta.nombre, in.existe>>)>>
    IN  IF ~in.existe
        THEN falla(ArchivoError("El archivo no existe", "None"), t0)
        ELSE IF Lower(ruta.suffix) \notin EXTENSIONES_PERMITIDAS
        THEN falla(ArchivoError("Formato de archivo no soportado", "None"), t0)
        ELSE
        LET excel == Lower(ruta.suffix) \in EXTENSIONES_EXCEL
            t1 == IF excel
                  THEN Append(t0, <<"read_excel", ruta.nombre, "">>)
                  ELSE t0 \o <<(<<"_detectar_delimitador", ruta.nombre,
                                  in.delimitador>>),
                               (IF in.delimitador = " "
                                THEN <<"_procesar_archivo_espacios",
                                       ruta.nombre, "">>
                                ELSE <<"read_csv", ruta.nombre,
                                       in.delimitador>>)>>
            leido == IF ~excel /\ in.delimitador = " "
                     THEN procesar_archivo_espacios(in.lectura)
                     ELSE in.lectura
        IN  IF ~EsTabla(leido) THEN falla(leido, t1)
            ELSE IF Empty(leido)
            THEN falla(ArchivoError("El archivo esta vacio", "None"), t1)
            ELSE [archivo |-> ruta, datos |-> leido, err |-> NoError,
                  ret |-> [t |-> "tabla", v |-> leido], traza |-> t1]

\* ManejadorArchivos.obtener_datos_json.
obtener_datos_json(m) ==
    IF ~tiene_datos(m.datos)
    THEN [err |-> ArchivoError("No hay datos cargados", "None"),
          ret |-> Nada]
    ELSE IF ~ColumnasUnicas(m.datos)
    THEN [err |-> ArchivoError("Error al convertir datos a JSON", "ValueError"),
          ret |-> Nada]
    ELSE [err |-> NoError, ret |-> [t |-> "json", v |-> ToJson(m.datos)]]

\* ManejadorArchivos.obtener_informacion_archivo. stat: what
\* self._archivo_actual.stat() ends with.
obtener_informacion_archivo(m, stat) ==
    IF m.archivo = Nada
    THEN [err |-> NoError, ret |-> [t |-> "info", v |-> Nada]]
    ELSE IF stat.exc # "ok"
    THEN [err |-> Excepcion(stat.exc), ret |-> Nada]
    ELSE [err |-> NoError,
          ret |-> [t |-> "info",
                   v |-> [nombre |-> m.archivo.nombre,
                          extension |-> m.archivo.suffix,
                          tamano |-> stat.st_size,
                          filas |-> IF tiene_datos(m.datos)
                                    THEN Len(m.datos.filas) ELSE 0,
                          columnas |-> IF tiene_datos(m.datos)
                                       THEN Len(m.datos.columnas) ELSE 0]]]

Manejador == [archivo |-> _archivo_actual, datos |-> _datos]

\* The statement "with <cliente> as c: c.enviar_datos(datos)" on the instance
\* st: __enter__ connects; when it raises the block is not entered and
\* __exit__ is not called; otherwise __exit__ disconnects after the block,
\* whether or not the block raised, and does not suppress the exception.
con_cliente(st, datos, in) ==
    LET entrada == conectar(st, in.c)
    IN  IF entrada.err # NoError
        THEN entrada
        ELSE desconectar(enviar_datos(entrada, datos, in.exc, in.n),
                         in.closeExc)

\* ClienteSocket.__init__ with the default timeout.
NuevoCliente(st) ==
    [st EXCEPT !.sock = None, !.con = FALSE, !.timeout = TimeoutDefecto]

\* The except clauses of ClienteGUI._enviar_datos: the box shown for what
\* left the try block.
MensajeEnvio(err) ==
    IF err = NoError THEN "Exito"
    ELSE IF err.tipo = "ConexionError" THEN "Error de Conexion"
    ELSE IF err.tipo = "ArchivoError" THEN "Error de Archivo"
    ELSE "Error"

\* ----------------------------------------------------------------- actions
Init ==
    /\ _socket = None
    /\ _conectado = FALSE
    /\ _timeout \in TimeoutValores
    /\ creados = 0
    /\ abiertos = {}
    /\ op = "__init__"
    /\ resultado = NoError
    /\ falloPrevio = [op |-> "", err |-> NoError]
    /\ traza = << >>
    /\ datosUlt = << >>
    /\ entregados = << >>
    /\ antes = [sock |-> None, con |-> FALSE, timeout |-> _timeout,
                creados |-> 0]
    /\ _archivo_actual = Nada
    /\ _datos = Nada
    /\ retorno = Nada
    /\ mensaje = ""
    /\ send_button = "disabled"
    /\ texto = << >>

\* What every call records: its name, what it raised and returned, the calls
\* it made, and the fields it found.
Registrar(nombre, err, ret, tr) ==
    /\ op' = nombre
    /\ resultado' = err
    /\ retorno' = ret
    /\ traza' = tr
    /\ falloPrevio' = IF resultado # NoError
                      THEN [op |-> op, err |-> resultado] ELSE falloPrevio
    /\ antes' = [sock |-> _socket, con |-> _conectado, timeout |-> _timeout,
                 creados |-> creados]
    /\ UNCHANGED texto

\* The state a call on the client leaves: r is the record its method returned.
Aplicar(r, nombre, datos) ==
    /\ _socket' = r.sock
    /\ _conectado' = r.con
    /\ _timeout' = r.timeout
    /\ creados' = r.creados
    /\ abiertos' = r.abiertos
    /\ datosUlt' = datos
    /\ entregados' = r.entregados
    /\ Registrar(nombre, r.err, Nada, r.traza)
    /\ UNCHANGED <<manejador, ventana>>

Conectar ==
    /\ creados < MaxSockets
    /\ \E closeExc \in {"ok", "OSError"}, socketExc \in {"ok", "OSError"},
          gc \in BOOLEAN, res \in ResConnectDe(_timeout) :
          Aplicar(conectar(Estado, [closeExc |-> closeExc,
                                    socketExc |-> socketExc,
                                    gc |-> gc, res |-> res]),
                  "conectar", << >>)

EnviarDatos ==
    \E datos \in Datos, exc \in ResSend :
        \E n \in Parciales(Encode(datos)) :
            Aplicar(enviar_datos(Estado, datos, exc, n), "enviar_datos", datos)

Desconectar ==
    \E closeExc \in {"ok", "OSError"} :
        Aplicar(desconectar(Estado, closeExc), "desconectar", << >>)

\* The timeout setter of ClienteSocket.
timeout_setter(st, valor) ==
    IF valor <= 0
    THEN [st EXCEPT !.err = ConexionError("El timeout debe ser mayor que 0",
                                          "None")]
    ELSE [st EXCEPT !.timeout = valor]

SetTimeout ==
    \E valor \in TimeoutValores :
        Aplicar(timeout_setter(Estado, valor), "timeout", << >>)

CargarArchivo ==
    \E ruta \in Rutas, existe \in BOOLEAN :
    \E d \in IF existe /\ Lower(ruta.suffix) \in EXTENSIONES_CSV
            THEN Delimitadores ELSE {","} :
    \E lectura \in IF existe /\ Lower(ruta.suffix) \in EXTENSIONES_PERMITIDAS
                   THEN LecturasDe(ruta, d) ELSE {Excepcion("ParserError")} :
        LET r == cargar_archivo(Manejador, ruta,
                                [existe |-> existe, delimitador |-> d,
                                 lectura |-> lectura])
        IN  /\ _archivo_actual' = r.archivo
            /\ _datos' = r.datos
            /\ Registrar("cargar_archivo", r.err, r.ret, r.traza)
            /\ UNCHANGED <<cliente, ventana>>

ObtenerDatosJson ==
    LET r == obtener_datos_json(Manejador)
    IN  /\ Registrar("obtener_datos_json", r.err, r.ret, << >>)
        /\ UNCHANGED <<cliente, manejador, ventana>>

ObtenerInformacionArchivo ==
    \E stat \in Stats :
        LET r == obtener_informacion_archivo(Manejador, stat)
        IN  /\ Registrar("obtener_informacion_archivo", r.err, r.ret, << >>)
            /\ UNCHANGED <<cliente, manejador, ventana>>

\* ClienteGUI._seleccionar_archivo with a file chosen in the dialog: the file
\* is loaded, its information is read for display and the send button is
\* enabled; on any exception an error box is shown and the button disabled.
GuiSeleccionarArchivo ==
    \E ruta \in Rutas, existe \in BOOLEAN :
    \E d \in IF existe /\ Lower(ruta.suffix) \in EXTENSIONES_CSV
            THEN Delimitadores ELSE {","} :
    \E lectura \in IF existe /\ Lower(ruta.suffix) \in EXTENSIONES_PERMITIDAS
                   THEN LecturasDe(ruta, d) ELSE {Excepcion("ParserError")} :
        LET r == cargar_archivo(Manejador, ruta,
                                [existe |-> existe, delimitador |-> d,
                                 lectura |-> lectura])
        IN
        \E stat \in IF r.err = NoError THEN Stats ELSE {CHOOSE x \in Stats : TRUE} :
        LET info == obtener_informacion_archivo(
                        [archivo |-> r.archivo, datos |-> r.datos], stat)
            err == IF r.err # NoError THEN r.err ELSE info.err
        IN  /\ _archivo_actual' = r.archivo
            /\ _datos' = r.datos
            /\ mensaje' = IF err = NoError THEN "Archivo Cargado"
                          ELSE IF err.tipo = "ArchivoError"
                          THEN "Error de Archivo" ELSE "Error"
            /\ send_button' = IF err = NoError THEN "normal" ELSE "disabled"
            /\ Registrar("_seleccionar_archivo", NoError, Nada, r.traza)
            /\ UNCHANGED cliente

\* ClienteGUI._enviar_datos. configOk: whether the configured host and port
\* pass the validation of Conexion.__init__; gc: whether the runtime has
\* finalized the socket of the client instance of the previous send.
GuiEnviarDatos ==
    /\ send_button = "normal"
    /\ creados < MaxSockets
    /\ UNCHANGED send_button
    /\ LET json == obtener_datos_json(Manejador)
           silencio == /\ Registrar("_enviar_datos", NoError, Nada, << >>)
                       /\ UNCHANGED <<cliente, manejador>>
       IN  IF ~tiene_datos(_datos)
           THEN mensaje' = "Error" /\ silencio
           ELSE IF json.err # NoError
           THEN mensaje' = MensajeEnvio(json.err) /\ silencio
           ELSE
           \E configOk \in BOOLEAN :
           IF ~configOk
           THEN /\ mensaje' = MensajeEnvio(ConexionError(
                                  "El host no puede estar vacio", "None"))
                /\ silencio
           ELSE
           \E gc \in IF _socket # None THEN BOOLEAN ELSE {FALSE},
              socketExc \in {"ok", "OSError"} :
           \E res \in IF socketExc = "ok" THEN ResConnect ELSE {"ok"} :
           \E exc \in IF res = "ok" THEN ResSend ELSE {"ok"} :
           \E n \in IF exc = "ok" THEN {0} ELSE Parciales(Encode(json.ret.v)),
              closeExc \in IF res = "ok" THEN {"ok", "OSError"} ELSE {"ok"} :
               LET previo == [Estado EXCEPT
                                !.abiertos = IF _socket # None /\ gc
                                             THEN @ \ {_socket} ELSE @]
                   r == con_cliente(NuevoCliente(previo), json.ret.v,
                                    [c |-> [closeExc |-> "ok",
                                            socketExc |-> socketExc,
                                            gc |-> gc, res |-> res],
                                     exc |-> exc, n |-> n,
                                     closeExc |-> closeExc])
               IN  /\ _socket' = r.sock
                   /\ _conectado' = r.con
                   /\ _timeout' = r.timeout
                   /\ creados' = r.creados
                   /\ abiertos' = r.abiertos
                   /\ datosUlt' = json.ret.v
                   /\ entregados' = r.entregados
                   /\ mensaje' = MensajeEnvio(r.err)
                   /\ Registrar("_enviar_datos", NoError, Nada, r.traza)
                   /\ UNCHANGED manejador

\* A single client instance, called in any order.
Next == Conectar \/ EnviarDatos \/ Desconectar \/ SetTimeout

Spec == Init /\ [][Next]_vars

\* A single file manager, called in any order.
NextArchivo == CargarArchivo \/ ObtenerDatosJson \/ ObtenerInformacionArchivo

InitArchivo == Init /\ _timeout = TimeoutDefecto

SpecArchivo == InitArchivo /\ [][NextArchivo]_vars

\* The window: files are loaded and sent, one client instance per send.
NextGui == GuiSeleccionarArchivo \/ GuiEnviarDatos

SpecGui == InitArchivo /\ [][NextGui]_vars

\* _detectar_delimitador called on the file on disk.
DetectarDelimitador ==
    /\ Registrar("_detectar_delimitador", NoError,
                 [t |-> "delimitador", v |-> _detectar_delimitador(texto)],
                 << >>)
    /\ UNCHANGED <<cliente, manejador, ventana>>

\* A file manager and a delimited-text file with any of the texts of S.
InicialCon(S) ==
    /\ texto \in S
    /\ _socket = None
    /\ _conectado = FALSE
    /\ _timeout = TimeoutDefecto
    /\ creados = 0
    /\ abiertos = {}
    /\ op = "__init__"
    /\ resultado = NoError
    /\ falloPrevio = [op |-> "", err |-> NoError]
    /\ traza = << >>
    /\ datosUlt = << >>
    /\ entregados = << >>
    /\ antes = [sock |-> None, con |-> FALSE, timeout |-> _timeout,
                creados |-> 0]
    /\ _archivo_actual = Nada
    /\ _datos = Nada
    /\ retorno = Nada
    /\ mensaje = ""
    /\ send_button = "disabled"

InitTexto == InicialCon(Textos \cup TextosLargos)

\* The separator detection applied to every enumerated text.
NextDetectar == DetectarDelimitador

SpecDetectar == InitTexto /\ [][NextDetectar]_vars

\* The separator as the one-character string cargar_archivo compares.
Simbolo(d) ==
    IF d = Coma THEN "," ELSE IF d = Tab THEN "\t"
    ELSE IF d = PuntoYComa THEN ";" ELSE " "

\* cargar_archivo of an existing .txt file whose lines are texto.
\* lectura: what the pandas reader called, if one is, ends with.
CargarTexto ==
    \E ruta \in {r \in Rutas : r.suffix = ".txt"},
       d \in {_detectar_delimitador(texto)},
       sinLector \in {procesar_lineas(texto, Nada) # Nada} :
    \E lectura \in IF d = Espacio /\ sinLector
                   THEN {Excepcion("ParserError")}
                   ELSE LecturasDe(ruta, ",") :
    \E leido \in {IF d = Espacio THEN procesar_lineas(texto, lectura)
                  ELSE lectura} :
    \E r \in {cargar_archivo(Manejador, ruta,
                             [existe |-> TRUE, delimitador |-> Simbolo(d),
                              lectura |-> leido])} :
        /\ _archivo_actual' = r.archivo
        /\ _datos' = r.datos
        /\ Registrar("cargar_archivo", r.err, r.ret, r.traza)
        /\ UNCHANGED <<cliente, ventana>>

\* The calls _procesar_archivo_espacios makes after readlines() on the lines
\* of the file: none when there is no line, pd.DataFrame when the loop has
\* left a header and rows, the fallback pd.read_csv otherwise.
LlamadasEspacios(lineas) ==
    IF lineas = << >> THEN << >>
    ELSE IF split(lineas[1]) # << >> /\ datos_procesados(lineas, 2) # << >>
    THEN <<(<<"DataFrame", "tabla", "">>)>>
    ELSE <<(<<"read_csv", "tabla", "\\s+">>)>>

\* _procesar_archivo_espacios called on the file whose lines are texto.
ProcesarArchivoEspacios ==
    LET sinLector == procesar_lineas(texto, Nada) # Nada
    IN  \E lectura \in IF sinLector THEN {Excepcion("ParserError")}
                       ELSE LecturasDe([nombre |-> "tabla", suffix |-> ".txt"],
                                       ",") :
        LET r == procesar_archivo_espacios(procesar_lineas(texto, lectura))
        IN  /\ Registrar("_procesar_archivo_espacios",
                         IF EsTabla(r) THEN NoError ELSE r,
                         IF EsTabla(r) THEN [t |-> "tabla", v |-> r] ELSE Nada,
                         LlamadasEspacios(texto))
            /\ UNCHANGED <<cliente, manejador, ventana>>

InitEspacios == InicialCon(TextosEspacios)

\* A file manager loading files separated by runs of spaces.
NextTexto == CargarTexto \/ ObtenerDatosJson \/ ProcesarArchivoEspacios

SpecTexto == InitEspacios /\ [][NextTexto]_vars

\* ------------------------------------------------------------------ claims
\* Positions of the calls named ev in the trace of the last call.
Eventos(ev) == {i \in 1..Len(traza) : traza[i][1] = ev}

\* C1 (as stated): in every reachable state of one client instance, every
\* socket that is still open is the one the instance holds, so at most one
\* socket created by the instance is open.
C1_SoloElSocketActualAbierto == abiertos \subseteq {_socket}

\* C2 (as stated): when the scoped send of the window has run (connect on
\* entry, one send, release on exit), whatever the exit path, the client is
\* not connected, holds no socket, and no socket created during the scope is
\* left open.
C2_AmbitoLiberaTodo ==
    (op = "_enviar_datos" /\ traza # << >>)
        => /\ ~_conectado
           /\ _socket = None
           /\ abiertos \cap ((antes.creados + 1)..creados) = {}

\* C3: enviar_datos called on a client that is not connected raises the
\* not-connected ConexionError, makes no call on any socket, hands over no
\* byte, and leaves the fields of the client as they were.
C3_EnviarSinConexion ==
    (op = "enviar_datos" /\ ~antes.con)
        => /\ resultado = ConexionError("No hay conexion establecida", "None")
           /\ traza = << >>
           /\ entregados = << >>
           /\ _socket = antes.sock
           /\ _conectado = antes.con
           /\ _timeout = antes.timeout
           /\ creados = antes.creados

\* C3 witness: a send refused on a client whose last connect failed (it
\* still holds the socket of that attempt).
C3_Testigo ==
    /\ op = "enviar_datos" /\ ~antes.con /\ antes.sock # None
    /\ resultado.msg = "No hay conexion establecida"
    /\ falloPrevio.op = "conectar"

\* C4: desconectar never raises and leaves the client not connected with no
\* socket held and the socket it held closed, from every reachable state and
\* whatever close() does; a second desconectar changes nothing more.
C4_DesconectarIdempotente ==
    /\ op = "desconectar"
         => /\ resultado = NoError
            /\ ~_conectado
            /\ _socket = None
            /\ antes.sock \notin abiertos
    /\ \A e1, e2 \in {"ok", "OSError"} :
           /\ desconectar(Estado, e1).err = NoError
           /\ desconectar(desconectar(Estado, e1), e2) = desconectar(Estado, e1)

\* C4 witness: a desconectar of a connected client whose close() raised.
C4_Testigo ==
    /\ op = "desconectar" /\ antes.con
    /\ traza = <<(<<"close", antes.sock, "OSError">>)>>

\* C5: conectar on a connected client closes the socket it held as its first
\* socket call, before the new socket is created, and that socket is closed
\* when the call ends.
C5_CierraAntesDeCrear ==
    (op = "conectar" /\ antes.con)
        => /\ Len(traza) >= 1
           /\ traza[1][1] = "close"
           /\ traza[1][2] = antes.sock
           /\ \A i \in Eventos("socket") : i > 1
           /\ antes.sock \notin abiertos

\* C5 witness: a conectar on a connected client that created a new socket.
C5_Testigo ==
    /\ op = "conectar" /\ antes.con /\ creados = antes.creados + 1
    /\ Eventos("socket") = {2}

\* C6: after conectar the client is connected exactly when the call returned
\* normally: connected after a normal return, not connected after any error,
\* whatever its state before the call.
C6_ConectadoSiiExito ==
    op = "conectar" => (_conectado <=> resultado = NoError)

\* C6 witness: a conectar on a connected client that raised.
C6_Testigo ==
    op = "conectar" /\ antes.con /\ resultado # NoError /\ Eventos("connect") # {}

\* The cause of a transport failure, as the classes the except clauses and
\* the guard of enviar_datos tell apart.
Clase(o, ctx) ==
    IF o = "conectar"
    THEN IF ctx \in {"socket.timeout", "socket.gaierror", "ConnectionRefusedError"}
         THEN <<o, ctx>> ELSE <<o, "other">>
    ELSE IF ctx \in {"socket.timeout", "BrokenPipeError", "None"}
         THEN <<o, ctx>> ELSE <<o, "other">>

\* Two transport failures (the last call and the latest failure before it)
\* with different causes.
DosFallosDistintos ==
    /\ op \in {"conectar", "enviar_datos"} /\ resultado # NoError
    /\ falloPrevio.op \in {"conectar", "enviar_datos"}
    /\ Clase(op, resultado.ctx) # Clase(falloPrevio.op, falloPrevio.err.ctx)

C8_TodoONada ==
    (op = "enviar_datos" /\ antes.con)
        => \/ resultado = NoError /\ entregados = Encode(datosUlt)
           \/ resultado.tipo = "ConexionError"

\* C8 witness: a send of a payload with multi-byte characters that returned.
C8_Testigo ==
    /\ op = "enviar_datos" /\ antes.con /\ resultado = NoError
    /\ Len(entregados) > Len(datosUlt)

\* C9: one conectar calls connect() at most once and one enviar_datos calls
\* sendall() at most once, and after the call that failed no further socket
\* call is made in that operation.
C9_SinReintentos ==
    /\ Cardinality(Eventos("connect")) <= 1
    /\ Cardinality(Eventos("sendall")) <= 1
    /\ Cardinality(Eventos("socket")) <= 1
    /\ (op \in {"conectar", "enviar_datos"} /\ resultado # NoError
         /\ traza # << >>)
          => \A i \in 1..Len(traza) :
                 (traza[i][1] # "close" /\ traza[i][3] # "ok") => i = Len(traza)

\* C9 witness: a conectar whose single connect() was refused.
C9_Testigo ==
    /\ op = "conectar" /\ resultado.ctx = "ConnectionRefusedError"
    /\ Cardinality(Eventos("connect")) = 1
    /\ traza[Len(traza)][3] = "ConnectionRefusedError"

\* C10 (as stated): what a core operation raises is a typed core error:
\* conectar and enviar_datos raise only ConexionError, and cargar_archivo,
\* obtener_datos_json and obtener_informacion_archivo raise only
\* ArchivoError; no exception of a library or of the system escapes.
C10_SoloErroresTipados ==
    /\ op \in {"conectar", "enviar_datos"}
         => resultado.tipo \in {"None", "ConexionError"}
    /\ op \in {"cargar_archivo", "obtener_datos_json",
                "obtener_informacion_archivo"}
         => resultado.tipo \in {"None", "ArchivoError"}

\* C11: cargar_archivo raises ArchivoError and returns no table whenever the
\* path does not exist, the suffix is none of .xlsx/.xls/.csv/.txt, the table
\* read has zero rows (a header-only file included), or the reader raises;
\* the kind is ArchivoError also when the error is one raised again by the
\* except clauses.
C11_CargaFallaConArchivoError ==
    /\ (op = "cargar_archivo" /\ resultado # NoError)
          => resultado.tipo = "ArchivoError" /\ retorno = Nada
    /\ \A ruta \in Rutas, existe \in BOOLEAN, d \in Delimitadores,
          lectura \in Lecturas :
           LET r == cargar_archivo(Manejador, ruta,
                                   [existe |-> existe, delimitador |-> d,
                                    lectura |-> lectura])
               causa == \/ ~existe
                        \/ Lower(ruta.suffix)
                               \notin {".xlsx", ".xls", ".csv", ".txt"}
                        \/ "filas" \notin DOMAIN lectura
                        \/ Len(lectura.filas) = 0
           IN  causa => r.err.tipo = "ArchivoError" /\ r.ret = Nada

\* C11 witness: a load after a successful one, refused because the table the
\* delimited-text reader returned has no rows; the ArchivoError raised inside
\* the try block reached the caller through the last except clause.
C11_Testigo ==
    /\ op = "cargar_archivo" /\ resultado.tipo = "ArchivoError"
    /\ resultado.ctx = "ArchivoError" /\ retorno = Nada
    /\ Eventos("read_csv") # {} /\ _datos # Nada

\* C12: a cargar_archivo that returns replaces the stored path and the stored
\* table together, by the path it was given and the table it returns; one
\* that raises leaves both as they were, so obtener_datos_json and
\* obtener_informacion_archivo answer as before the call; the path and the
\* table stored always come from the same load.
C12_CargaTodoONada ==
    /\ (_archivo_actual = Nada) <=> (_datos = Nada)
    /\ (op = "cargar_archivo" /\ resultado = NoError)
          => /\ retorno = [t |-> "tabla", v |-> _datos]
             /\ _archivo_actual.nombre = traza[1][2]
    /\ \A ruta \in Rutas, existe \in BOOLEAN, d \in Delimitadores,
          lectura \in Lecturas :
           LET r == cargar_archivo(Manejador, ruta,
                                   [existe |-> existe, delimitador |-> d,
                                    lectura |-> lectura])
               m1 == [archivo |-> r.archivo, datos |-> r.datos]
           IN  IF r.err = NoError
               THEN /\ r.archivo = ruta
                    /\ r.ret = [t |-> "tabla", v |-> r.datos]
                    /\ r.datos = IF d = " " /\ Lower(ruta.suffix)
                                                  \in {".csv", ".txt"}
                                 THEN procesar_archivo_espacios(lectura)
                                 ELSE lectura
               ELSE /\ m1 = Manejador
                    /\ obtener_datos_json(m1) = obtener_datos_json(Manejador)
                    /\ \A stat \in Stats :
                           obtener_informacion_archivo(m1, stat)
                               = obtener_informacion_archivo(Manejador, stat)

\* C12 witness: a load of one path that failed in the reader after a load of
\* another path had succeeded; the fields are those of the earlier load.
C12_Testigo ==
    /\ op = "cargar_archivo" /\ resultado # NoError
    /\ Eventos("read_excel") # {}
    /\ _archivo_actual # Nada /\ _datos # Nada
    /\ _archivo_actual.nombre # traza[1][2]

\* The calls of cargar_archivo that read the contents of the file.
LecturasDeContenido ==
    {"_detectar_delimitador", "_procesar_archivo_espacios", "read_csv",
     "read_excel"}

\* C13: cargar_archivo on a path whose suffix, lower-cased, is none of
\* .xlsx/.xls/.csv/.txt raises ArchivoError having made no call that reads
\* the contents of the file (no separator detection, no reader), whatever
\* the case of the suffix; a suffix that is one of the four in upper case is
\* not rejected.
C13_RechazoAntesDeLeer ==
    /\ (op = "cargar_archivo"
          /\ \A ruta \in Rutas :
                 ruta.nombre = traza[1][2]
                     => Lower(ruta.suffix)
                            \notin {".xlsx", ".xls", ".csv", ".txt"})
          => /\ resultado.tipo = "ArchivoError"
             /\ \A i \in 1..Len(traza) : traza[i][1] \notin LecturasDeContenido
    /\ \A ruta \in Rutas, existe \in BOOLEAN, d \in Delimitadores,
          lectura \in Lecturas :
           LET r == cargar_archivo(Manejador, ruta,
                                   [existe |-> existe, delimitador |-> d,
                                    lectura |-> lectura])
               leidas == {i \in 1..Len(r.traza) :
                              r.traza[i][1] \in LecturasDeContenido}
           IN  IF Lower(ruta.suffix) \notin {".xlsx", ".xls", ".csv", ".txt"}
               THEN r.err.tipo = "ArchivoError" /\ leidas = {}
               ELSE existe => leidas # {}

\* C13 witness: an existing file with an unsupported suffix was refused after
\* the existence test alone.
C13_Testigo ==
    /\ op = "cargar_archivo" /\ resultado.tipo = "ArchivoError"
    /\ traza = <<(<<"exists", "notas", TRUE>>)>>

\* C14 (as stated): obtener_datos_json raises ArchivoError exactly when no
\* cargar_archivo has succeeded so far (no table is stored); otherwise it
\* returns the serialization of the stored table, the table of the latest
\* successful load, rows in table order, and changes no field.
C14_JsonSiiHuboCarga ==
    op = "obtener_datos_json"
        => /\ (resultado # NoError) <=> (_datos = Nada)
           /\ resultado # NoError => resultado.tipo = "ArchivoError"
           /\ resultado = NoError
                 => retorno = [t |-> "json", v |-> ToJson(_datos)]

\* C15 (as stated): obtener_informacion_archivo returns the empty result
\* exactly when no cargar_archivo has succeeded so far; otherwise it returns
\* the name and the suffix of the stored path and the numbers of rows and of
\* columns of the stored table, the one obtener_datos_json serializes, with
\* at least one row.
C15_InformacionDeLaCarga ==
    op = "obtener_informacion_archivo"
        => IF _archivo_actual = Nada
           THEN resultado = NoError /\ retorno = [t |-> "info", v |-> Nada]
           ELSE /\ resultado = NoError
                /\ retorno.t = "info" /\ retorno.v # Nada
                /\ retorno.v.nombre = _archivo_actual.nombre
                /\ retorno.v.extension = _archivo_actual.suffix
                /\ retorno.v.filas = Len(_datos.filas)
                /\ retorno.v.columnas = Len(_datos.columnas)
                /\ retorno.v.filas >= 1

\* Every line of the file has the same number, at least one, of the
\* character ch.
MismoNumeroPorLinea(ch) ==
    /\ texto # << >>
    /\ \A i \in 1..Len(texto) :
           /\ Cuenta(texto[i], ch) >= 1
           /\ Cuenta(texto[i], ch) = Cuenta(texto[1], ch)

\* C17 (as stated): on every text each line of which has the same number, at
\* least one, of commas, _detectar_delimitador returns the comma, whether the
\* answer comes from csv.Sniffer or from the manual analysis and whatever
\* spaces the fields contain.
C17_ComasDetectadas ==
    (op = "_detectar_delimitador" /\ MismoNumeroPorLinea(Coma))
        => retorno = [t |-> "delimitador", v |-> Coma]

\* C18 (as stated): on every text each line of which has the same number, at
\* least one, of tabs and no comma or semicolon, _detectar_delimitador
\* returns the tab; likewise the semicolon for semicolons with no comma or
\* tab.
C18_TabYPuntoYComaDetectados ==
    \A ch \in {Tab, PuntoYComa} :
        (/\ op = "_detectar_delimitador"
         /\ MismoNumeroPorLinea(ch)
         /\ \A i \in 1..Len(texto) :
                \A otro \in {Coma, Tab, PuntoYComa} \ {ch} :
                    Cuenta(texto[i], otro) = 0)
            => retorno = [t |-> "delimitador", v |-> ch]

RECURSIVE LeerCadena(_, _, _)
\* A JSON string read from position i of s, just after its opening quote:
\* the characters up to the closing quote, a backslash standing for the
\* character after it, and the position after the closing quote.
LeerCadena(s, i, acc) ==
    IF s[i] = 34 THEN [v |-> acc, sig |-> i + 1]
    ELSE IF s[i] = 92 THEN LeerCadena(s, i + 2, Append(acc, s[i + 1]))
    ELSE LeerCadena(s, i + 1, Append(acc, s[i]))

RECURSIVE LeerLiteral(_, _, _)
\* A number or null read from position i: the characters before the next
\* comma or closing brace.
LeerLiteral(s, i, acc) ==
    IF s[i] \in {44, 125} THEN [v |-> acc, sig |-> i]
    ELSE LeerLiteral(s, i + 1, Append(acc, s[i]))

LeerValor(s, i) ==
    IF s[i] = 34
    THEN LET r == LeerCadena(s, i + 1, << >>)
         IN  [v |-> Str(r.v), sig |-> r.sig]
    ELSE LET r == LeerLiteral(s, i, << >>)
         IN  [v |-> IF r.v = <<110, 117, 108, 108>> THEN Null ELSE Num(r.v),
              sig |-> r.sig]

RECURSIVE LeerPares(_, _, _)
\* The members "name":value of an object, read from position i.
LeerPares(s, i, acc) ==
    IF s[i] = 125 THEN [v |-> acc, sig |-> i + 1]
    ELSE IF s[i] = 44 THEN LeerPares(s, i + 1, acc)
    ELSE LET k == LeerCadena(s, i + 1, << >>)
             val == LeerValor(s, k.sig + 1)
         IN  LeerPares(s, val.sig, Append(acc, [k |-> k.v, v |-> val.v]))

RECURSIVE LeerObjetos(_, _, _)
LeerObjetos(s, i, acc) ==
    IF s[i] = 93 THEN acc
    ELSE IF s[i] = 44 THEN LeerObjetos(s, i + 1, acc)
    ELSE LET o == LeerPares(s, i + 1, << >>)
         IN  LeerObjetos(s, o.sig, Append(acc, o.v))

\* The array of objects a JSON text stands for, as its parser reads it: one
\* sequence of members [k, v] per object, in the order of the text.
ParseJson(s) == LeerObjetos(s, 2, << >>)

\* The logical rows of the file: the words of each non-blank line after the
\* first line, in the order of the file.
FilasLogicas ==
    LET RECURSIVE F(_)
        F(i) == IF i > Len(texto) THEN << >>
                ELSE (IF split(texto[i]) = << >> THEN << >>
                      ELSE <<split(texto[i])>>) \o F(i + 1)
    IN  F(2)

\* The table stored is the one _procesar_archivo_espacios built from the
\* lines of the file.
EsReconstruida == _datos # Nada /\ _datos = procesar_lineas(texto, Nada)

\* C16 (as stated): once cargar_archivo has accepted a file and stored the
\* table built from its lines, obtener_datos_json returns a text whose parse
\* has as many rows as the file has non-blank lines after the header, in the
\* same order (row i begins with the first word of data line i), each with
\* the names of the header as its set of columns.
C16_IdaYVuelta ==
    (op = "obtener_datos_json" /\ EsReconstruida)
        => /\ resultado = NoError
           /\ LET filas == ParseJson(retorno.v)
                  nombres == split(texto[1])
              IN  /\ Len(filas) = Len(FilasLogicas)
                  /\ \A i \in 1..Len(filas) :
                         /\ {filas[i][k].k : k \in 1..Len(filas[i])}
                                = {nombres[k] : k \in 1..Len(nombres)}
                         /\ filas[i][1].v.t = "str"
                         /\ Len(filas[i][1].v.v) >= Len(FilasLogicas[i][1])
                         /\ SubSeq(filas[i][1].v.v, 1, Len(FilasLogicas[i][1]))
                                = FilasLogicas[i][1]

\* The fields of a line of words for n columns: the leading words joined with
\* single spaces, then the last n - 1 words.
CamposEsperados(partes, n) ==
    <<join(SubSeq(partes, 1, Len(partes) - n + 1))>>
        \o SubSeq(partes, Len(partes) - n + 2, Len(partes))

\* C19 (as stated): with N the number of names of the header, when every data
\* line has at least N words and one of them has more, the reconstruction
\* returns one row per data line whose first field is the leading words
\* joined with single spaces and whose other fields are the last N - 1 words
\* (the columns 'anio' and 'perdida_ha', converted to numbers, left aside); so
\* "name age" / "Ana Maria 30" / "Luis 41" gives the rows
\* {name: "Ana Maria", age: "30"} and {name: "Luis", age: "41"}.
C19_ReconstruccionConNColumnas ==
    LET nombres == split(texto[1])
        N == Len(nombres)
    IN  (/\ op = "_procesar_archivo_espacios"
         /\ N >= 2
         /\ Len(FilasLogicas) = Len(texto) - 1
         /\ \A i \in 1..Len(FilasLogicas) : Len(FilasLogicas[i]) >= N
         /\ \E i \in 1..Len(FilasLogicas) : Len(FilasLogicas[i]) > N)
            => /\ resultado = NoError
               /\ retorno.v.columnas = nombres
               /\ Len(retorno.v.filas) = Len(FilasLogicas)
               /\ \A i \in 1..Len(FilasLogicas) :
                      \A k \in 1..N :
                          nombres[k] \notin {Anio, PerdidaHa}
                              => retorno.v.filas[i][k]
                                     = Str(CamposEsperados(FilasLogicas[i], N)[k])

\* C20: cargar_archivo of an existing file with a supported suffix calls
\* pd.read_excel right after the existence test, with no separator detection,
\* when the suffix is .xlsx/.xls; for .csv/.txt it calls _detectar_delimitador
\* first, and then _procesar_archivo_espacios if and only if the separator
\* detected is the space, otherwise pd.read_csv with the separator detected.
C20_DespachoPorExtensionYSeparador ==
    /\ op = "cargar_archivo"
          => /\ \A i \in Eventos("read_excel") :
                    i = 2 /\ Len(traza) = 2 /\ traza[1][1] = "exists"
             /\ \A i \in Eventos("_detectar_delimitador") :
                    i = 2 /\ Len(traza) = 3 /\ traza[1][1] = "exists"
             /\ \A i \in Eventos("_procesar_archivo_espacios") :
                    i = 3 /\ traza[2] = <<"_detectar_delimitador",
                                          traza[3][2], " ">>
             /\ \A i \in Eventos("read_csv") :
                    /\ i = 3 /\ traza[3][3] # " "
                    /\ traza[2] = <<"_detectar_delimitador", traza[3][2],
                                    traza[3][3]>>
             /\ resultado = NoError
                    => IF Lower(_archivo_actual.suffix) \in {".xlsx", ".xls"}
                       THEN Eventos("read_excel") = {2}
                       ELSE Eventos("_detectar_delimitador") = {2}
    /\ \A ruta \in Rutas, d \in Delimitadores, lectura \in Lecturas :
           LET r == cargar_archivo(Manejador, ruta,
                                   [existe |-> TRUE, delimitador |-> d,
                                    lectura |-> lectura])
               llamadas == [i \in 1..Len(r.traza) |-> r.traza[i][1]]
           IN  IF Lower(ruta.suffix) \in {".xlsx", ".xls"}
               THEN llamadas = <<"exists", "read_excel">>
               ELSE IF Lower(ruta.suffix) \in {".csv", ".txt"}
               THEN /\ r.traza[2] = <<"_detectar_delimitador", ruta.nombre, d>>
                    /\ r.traza[3] = IF d = " "
                                    THEN <<"_procesar_archivo_espacios",
                                           ruta.nombre, "">>
                                    ELSE <<"read_csv", ruta.nombre, d>>
                    /\ Len(r.traza) = 3
               ELSE llamadas = <<"exists">>

\* C20 witness: a .txt file whose separator was detected as the space was
\* loaded through _procesar_archivo_espacios.
C20_Testigo ==
    /\ op = "cargar_archivo" /\ resultado = NoError
    /\ _archivo_actual.suffix = ".txt"
    /\ traza = <<(<<"exists", "tabla", TRUE>>),
                 (<<"_detectar_delimitador", "tabla", " ">>),
                 (<<"_procesar_archivo_espacios", "tabla", "">>)>>

\* The share of the lines that have one and the same number of columns under
\* the separator d is at least 80%.
AcuerdoDel80(lineas, d) ==
    \E c \in {NumColumnas(lineas[i], d) : i \in 1..Len(lineas)} :
        10 * Cardinality({i \in 1..Len(lineas) : NumColumnas(lineas[i], d) = c})
            >= 8 * Len(lineas)

\* C21 (as stated): when csv.Sniffer has failed and the manual analysis
\* returns a separator other than the comma, at least 80% of the lines of the
\* sample have one and the same number of columns under it; when no
\* separator reaches that agreement, the comma is returned.
C21_AcuerdoDel80PorCiento ==
    (op = "_detectar_delimitador" /\ sniff(Muestra(texto)) = 0
        /\ LineasMuestra(texto) # << >>)
        => LET lm == LineasMuestra(texto)
           IN  /\ retorno.v # Coma => AcuerdoDel80(lm, retorno.v)
               /\ (\A d \in {Coma, Tab, PuntoYComa, Espacio} :
                       ~AcuerdoDel80(lm, d)) => retorno.v = Coma

\* The reference of the manual analysis on the lines lm: the candidates in
\* the order comma, tab, semicolon, space; those whose mean number of columns
\* is at least 2; the greatest pair (lines / distinct numbers of columns,
\* mean number of columns), the earliest one on a tie; the comma when there is
\* none.
ReferenciaManual(lm) ==
    LET orden == <<Coma, Tab, PuntoYComa, Espacio>>
        n == Len(lm)
        cols == [k \in 1..4 |-> [i \in 1..n |-> NumColumnas(lm[i], orden[k])]]
        distintos == [k \in 1..4 |-> Cardinality({cols[k][i] : i \in 1..n})]
        RECURSIVE Total(_, _)
        Total(k, i) == IF i = 0 THEN 0 ELSE cols[k][i] + Total(k, i - 1)
        total == [k \in 1..4 |-> Total(k, n)]
        validos == {k \in 1..4 : n > 0 /\ total[k] >= 2 * n}
        \* n / distintos[j] < n / distintos[k], or equal and the mean smaller
        menor(j, k) == \/ distintos[j] > distintos[k]
                       \/ distintos[j] = distintos[k] /\ total[j] < total[k]
        igual(j, k) == distintos[j] = distintos[k] /\ total[j] = total[k]
    IN  IF validos = {} THEN Coma
        ELSE orden[CHOOSE k \in validos :
                       \A j \in validos \ {k} :
                           menor(j, k) \/ (igual(j, k) /\ k < j)]

\* The first 10 non-blank lines of the sample, stripped.
PrimerasDiezNoBlancas(contenido) ==
    LET piezas == Muestra(contenido)
        todas == Filtrar([i \in 1..Len(piezas) |-> strip(piezas[i])],
                         {i \in 1..Len(piezas) : strip(piezas[i]) # << >>}, 1)
    IN  SubSeq(todas, 1, IF Len(todas) < 10 THEN Len(todas) ELSE 10)

\* C22 (as stated): when csv.Sniffer has failed, _detectar_delimitador
\* returns what the reference gives on the first 10 non-blank lines of the
\* sample, all of them when there are fewer.
C22_ReferenciaPrimerasDiezNoBlancas ==
    (op = "_detectar_delimitador" /\ sniff(Muestra(texto)) = 0)
        => retorno = [t |-> "delimitador",
                      v |-> ReferenciaManual(PrimerasDiezNoBlancas(texto))]

\* C22 (amended): when csv.Sniffer has failed, _detectar_delimitador returns
\* what the reference gives on the non-blank lines among the first 10 lines
\* of the sample (fewer than the first 10 non-blank lines when a blank line
\* comes before the eleventh line):
\* the candidate of mean column count at least 2 with the greatest pair
\* (lines / distinct column counts, mean column count), the earliest of
\* comma, tab, semicolon, space on a tie, and the comma if none qualifies.
C22_ReferenciaDelAnalisisManual ==
    (op = "_detectar_delimitador" /\ sniff(Muestra(texto)) = 0)
        => retorno = [t |-> "delimitador",
                      v |-> ReferenciaManual(LineasMuestra(texto))]

\* C22 witness: the manual analysis returned the semicolon where the comma
\* qualifies too with as many distinct column counts and a smaller mean.
C22_Testigo ==
    /\ op = "_detectar_delimitador" /\ sniff(Muestra(texto)) = 0
    /\ retorno.v = PuntoYComa
    /\ LET lm == LineasMuestra(texto)
           c == Columnas(lm, Coma)
           p == Columnas(lm, PuntoYComa)
       IN  /\ c.suma >= 2 * c.lineas
           /\ c.unicas = p.unicas
           /\ c.suma < p.suma

\* The lines after the first that give a row: those of 3 words or more.
LineasConFila ==
    Filtrar(FilasLogicas,
            {i \in 1..Len(FilasLogicas) : Len(FilasLogicas[i]) >= 3}, 1)

\* The table returned was built by pd.DataFrame from the rows of the loop.
TablaDelBucle ==
    /\ op = "_procesar_archivo_espacios" /\ resultado = NoError
    /\ Eventos("DataFrame") # {}

CampoDelBucle(w, k) ==
    IF Len(w) = 3 THEN (IF k = 4 THEN << >> ELSE w[k])
    ELSE IF k = 1 THEN join(SubSeq(w, 1, Len(w) - 3))
    ELSE w[Len(w) - 4 + k]

\* C24 (as stated): in the table built from the lines, a cell of the column
\* 'anio' or 'perdida_ha' whose string is not a number stays in its row as
\* the string it was, neither null nor any other value.
C24_CeldaNoNumericaIntacta ==
    TablaDelBucle
        => /\ Len(retorno.v.filas) = Len(LineasConFila)
           /\ \A i \in 1..Len(retorno.v.filas) :
                  \A k \in 1..4 :
                      (/\ retorno.v.columnas[k] \in {Anio, PerdidaHa}
                       /\ ~EsNumero(CampoDelBucle(LineasConFila[i], k)))
                          => retorno.v.filas[i][k]
                                 = Str(CampoDelBucle(LineasConFila[i], k))

\* C25 (as stated): when the loop over the lines of a non-empty file leaves
\* no header or no row, _procesar_archivo_espacios calls
\* _procesar_columnas_fijas next, and it raises ArchivoError only after that
\* call has been made.
C25_ColumnasFijasDespuesDelBucle ==
    (/\ op = "_procesar_archivo_espacios"
     /\ texto # << >>
     /\ (split(texto[1]) = << >> \/ LineasConFila = << >>))
        => /\ Eventos("DataFrame") = {}
           /\ Eventos("_procesar_columnas_fijas") # {}

\* The number of the first non-blank line of the file, 0 when all are blank.
PrimeraNoBlanca ==
    IF \A i \in 1..Len(texto) : split(texto[i]) = << >> THEN 0
    ELSE CHOOSE i \in 1..Len(texto) :
             /\ split(texto[i]) # << >>
             /\ \A j \in 1..(i - 1) : split(texto[j]) = << >>

\* C26 (as stated): when the file has a non-blank line and a line of 3 words
\* or more after the first non-blank one, _procesar_archivo_espacios builds
\* the table from the lines, wherever the first non-blank line is; the names
\* of its columns are the words of that line, and its rows are those of the
\* lines after it, one per line of 3 words or more.
C26_EncabezadoPrimeraNoBlanca ==
    LET p == PrimeraNoBlanca
        despues == {i \in (p + 1)..Len(texto) : Len(split(texto[i])) >= 3}
    IN  (op = "_procesar_archivo_espacios" /\ p > 0 /\ despues # {})
            => /\ Eventos("DataFrame") # {}
               /\ resultado = NoError
                      => /\ retorno.v.columnas = split(texto[p])
                         /\ Len(retorno.v.filas) = Cardinality(despues)

\* C27: in every reachable state of a client the connected flag is true only
\* while a socket is held, so a desconectar that finds no socket finds the
\* flag false and leaves the client as it was.
C27_ConectadoImplicaSocket ==
    /\ _conectado => _socket # None
    /\ (op = "desconectar" /\ antes.sock = None)
          => ~antes.con /\ ~_conectado /\ _socket = None /\ traza = << >>

\* C27 witness: a desconectar on a client that had created a socket before
\* and holds none any more found no socket.
C27_Testigo ==
    /\ op = "desconectar" /\ antes.sock = None
    /\ creados > 0
    /\ ~_conectado

\* C28: an enviar_datos that raises, whatever sendall raised, leaves the
\* socket reference and the connected flag as it found them, and closes
\* nothing: after a failed sendall the client is still connected on the same
\* open socket.
C28_EnvioFallidoNoCambiaEstado ==
    (op = "enviar_datos" /\ resultado # NoError)
        => /\ _socket = antes.sock
           /\ _conectado = antes.con
           /\ _timeout = antes.timeout
           /\ creados = antes.creados
           /\ Eventos("close") = {}
           /\ Eventos("sendall") # {}
                  => _conectado /\ _socket # None /\ _socket \in abiertos

\* C28 witness: sendall timed out on a connected client, which is still
\* connected on the socket it had.
C28_Testigo ==
    /\ op = "enviar_datos" /\ resultado.ctx = "socket.timeout"
    /\ Eventos("sendall") # {}
    /\ _conectado /\ _socket = antes.sock

\* C29 (as stated): the timeout of a client is greater than 0 in every
\* reachable state, from construction on, and a call of the setter that
\* raises leaves the timeout it found.
C29_TimeoutPositivo ==
    /\ _timeout > 0
    /\ (op = "timeout" /\ resultado # NoError) => _timeout = antes.timeout

====
